---- MODULE Spec2Model ----
(***************************************************************************)
(* WhatsApp webhook / dashboard (src/webhook_server.py, src/app3.py):      *)
(* the webhook normalizer, the ingestion endpoint, the message store of    *)
(* both processes, the dashboard's connection handling and the media       *)
(* relay.                                                                  *)
(*                                                                         *)
(* Text is a sequence of one-character strings, so that strip, upper,     *)
(* lower and the URL splitting are computed and not assumed.               *)
(***************************************************************************)
EXTENDS Integers, Sequences, FiniteSets, TLC

\* ------------------------------------------------------------------ bounds
MaxBatch == 2      \* events in one array of a webhook body
MaxMsgs  == 2      \* rows the messages relation may hold
MaxTime  == 1      \* readings of a process's wall clock: 0..MaxTime
MaxChunks == 2     \* non-empty chunks of an upstream body

\* -------------------------------------------------------------------- text
LowerLetters ==
  <<"a","b","c","d","e","f","g","h","i","j","k","l","m",
    "n","o","p","q","r","s","t","u","v","w","x","y","z">>

UpperLetters ==
  <<"A","B","C","D","E","F","G","H","I","J","K","L","M",
    "N","O","P","Q","R","S","T","U","V","W","X","Y","Z">>

Digits == {"0","1","2","3","4","5","6","7","8","9"}

IsLower(c) == \E i \in 1..26 : LowerLetters[i] = c
IsUpper(c) == \E i \in 1..26 : UpperLetters[i] = c
IsLetter(c) == IsLower(c) \/ IsUpper(c)

\* str.upper(), str.lower(), one character
UpperChar(c) ==
  IF IsLower(c) THEN UpperLetters[CHOOSE i \in 1..26 : LowerLetters[i] = c] ELSE c

LowerChar(c) ==
  IF IsUpper(c) THEN LowerLetters[CHOOSE i \in 1..26 : UpperLetters[i] = c] ELSE c

Upper(s) == [i \in 1..Len(s) |-> UpperChar(s[i])]
Lower(s) == [i \in 1..Len(s) |-> LowerChar(s[i])]

IsSpace(c) == c = " "

\* str.strip(): the leading and trailing whitespace removed
Strip(s) ==
  LET keep == {i \in 1..Len(s) : ~IsSpace(s[i])}
  IN  IF keep = {} THEN <<>>
      ELSE LET lo == CHOOSE i \in keep : \A j \in keep : i <= j
               hi == CHOOSE i \in keep : \A j \in keep : j <= i
           IN  SubSeq(s, lo, hi)

\* str.rstrip("/")
RStripSlash(s) ==
  LET keep == {i \in 1..Len(s) : s[i] # "/"}
  IN  IF keep = {} THEN <<>>
      ELSE SubSeq(s, 1, CHOOSE i \in keep : \A j \in keep : j <= i)

\* str.split("/")[-1]: what follows the last "/"
LastSegment(s) ==
  LET sl == {i \in 1..Len(s) : s[i] = "/"}
  IN  IF sl = {} THEN s
      ELSE SubSeq(s, (CHOOSE i \in sl : \A j \in sl : j <= i) + 1, Len(s))

\* the first position of a character of cs in s, Len(s)+1 when there is none
FirstOf(s, cs) ==
  LET at == {i \in 1..Len(s) : s[i] \in cs}
  IN  IF at = {} THEN Len(s) + 1 ELSE CHOOSE i \in at : \A j \in at : i <= j

\* urllib.parse.urlparse(url).path: the scheme ("letters:" in front), the
\* "//netloc", the "#fragment" and the "?query" are split off
UrlPath(url) ==
  LET colon == FirstOf(url, {":"})
      hasScheme ==
        /\ colon <= Len(url)
        /\ colon > 1
        /\ IsLetter(url[1])
        /\ \A i \in 1..(colon - 1) :
              IsLetter(url[i]) \/ url[i] \in Digits \/ url[i] \in {"+", "-", "."}
      r1 == IF hasScheme THEN SubSeq(url, colon + 1, Len(url)) ELSE url
      hasNetloc == Len(r1) >= 2 /\ r1[1] = "/" /\ r1[2] = "/"
      r2 == IF hasNetloc
            THEN LET rest == SubSeq(r1, 3, Len(r1))
                 IN  SubSeq(rest, FirstOf(rest, {"/", "?", "#"}), Len(rest))
            ELSE r1
      r3 == SubSeq(r2, 1, FirstOf(r2, {"#"}) - 1)
  IN  SubSeq(r3, 1, FirstOf(r3, {"?"}) - 1)

\* mutant: the URL is kept whole
extract_whole_url(url) == url

extract_media_id_from_url(url) == LastSegment(RStripSlash(UrlPath(url)))

Ascii ==
  <<
    " ","!","\"","#","$","%","&","'","(",")","*","+",
    ",","-",".","/","0","1","2","3","4","5","6","7",
    "8","9",":",";","<","=",">","?","@","A","B","C",
    "D","E","F","G","H","I","J","K","L","M","N","O",
    "P","Q","R","S","T","U","V","W","X","Y","Z","[",
    "\\","]","^","_","grave","a","b","c","d","e","f","g",
    "h","i","j","k","l","m","n","o","p","q","r","s",
    "t","u","v","w","x","y","z","{","|","}","~"
  >>

HexDigits == <<"0","1","2","3","4","5","6","7","8","9","A","B","C","D","E","F">>

IsHex(c) == \E i \in 1..16 : HexDigits[i] = UpperChar(c)
HexVal(c) == (CHOOSE i \in 1..16 : HexDigits[i] = UpperChar(c)) - 1

\* the character of the byte %XY: printable ASCII as it is (the grave accent
\* under its name), any other byte as a character of its own
ByteChar(x, y) ==
  LET n == 16 * HexVal(x) + HexVal(y)
  IN  IF n \in 32..126 THEN Ascii[n - 31] ELSE "byte"

\* urllib.parse.unquote: every %XY of two hex digits is replaced by its byte
RECURSIVE unquote(_)
unquote(s) ==
  IF s = <<>> THEN <<>>
  ELSE IF s[1] = "%" /\ Len(s) >= 3 /\ IsHex(s[2]) /\ IsHex(s[3])
  THEN <<ByteChar(s[2], s[3])>> \o unquote(SubSeq(s, 4, Len(s)))
  ELSE <<s[1]>> \o unquote(Tail(s))

\* urllib.parse.unquote_plus: "+" reads as a space, then unquote
unquote_plus(s) == unquote([i \in 1..Len(s) |-> IF s[i] = "+" THEN " " ELSE s[i]])

\* the code of a printable ASCII character
AsciiCode(c) == 31 + (CHOOSE i \in 1..95 : Ascii[i] = c)

\* urllib.parse.quote_plus, one character: letters, digits and "_.-~" stay,
\* the space becomes "+", any other is written %XY in upper-case hex
QuoteChar(c) ==
  IF IsLetter(c) \/ c \in Digits \/ c \in {"_", ".", "-", "~"} THEN <<c>>
  ELSE IF c = " " THEN <<"+">>
  ELSE <<"%", HexDigits[(AsciiCode(c) \div 16) + 1], HexDigits[(AsciiCode(c) % 16) + 1]>>

RECURSIVE quote_plus(_)
quote_plus(s) ==
  IF s = <<>> THEN <<>> ELSE QuoteChar(s[1]) \o quote_plus(Tail(s))

StartsWith(s, prefix) ==
  Len(prefix) <= Len(s) /\ SubSeq(s, 1, Len(prefix)) = prefix

\* ------------------------------------------------------------- JSON values
\* A scalar of the decoded body: a key that is absent, null, a string or a
\* number (s holds the string, or the number's digits).
Absent == [k |-> "absent", s |-> <<>>]
Null   == [k |-> "null",   s |-> <<>>]
Str(s) == [k |-> "str",    s |-> s]
Num(s) == [k |-> "num",    s |-> s]

\* dict.get(key): an absent key reads as None
Get(v) == IF v.k = "absent" THEN Null ELSE v
\* dict.get(key, ""): an absent key reads as the empty string
GetOrEmpty(v) == IF v.k = "absent" THEN Str(<<>>) ELSE v

\* Python truth of a scalar: None, "" and 0 are false
Truthy(v) ==
  \/ v.k = "str" /\ v.s # <<>>
  \/ v.k = "num" /\ v.s # <<"0">>

\* a or b
Or(a, b) == IF Truthy(a) THEN a ELSE b

\* str(v)
PyStr(v) == IF v.k = "null" THEN <<"N","o","n","e">> ELSE v.s

TEXT == <<"T","E","X","T">>
MediaTags ==
  { <<"I","M","A","G","E">>, <<"V","I","D","E","O">>,
    <<"D","O","C","U","M","E","N","T">>, <<"V","O","I","C","E">>,
    <<"A","U","D","I","O">> }

text_type == <<"t","e","x","t">>

\* "text" and "message" as keys that are absent: what {} reads as
EmptyText == [k |-> "absent", s |-> <<>>, body |-> Absent]
EmptyContent ==
  [k |-> "dict", type |-> Absent, text |-> EmptyText, caption |-> Absent,
   mediaId |-> Absent, id |-> Absent, url |-> Absent, mediaUrl |-> Absent]

\* --------------------------------------------------------------- normalizer
NoResult ==
  [raised |-> FALSE, none |-> TRUE, text |-> Str(<<>>), msg_type |-> <<>>,
   media_identifier |-> <<>>, caption |-> <<>>, sender |-> <<>>,
   contact_name |-> <<>>]

Raised == [NoResult EXCEPT !.raised = TRUE, !.none = FALSE]

\* mutant: only a plain string is read as the text
TextOfPlainOnly(t) == Str(IF t.k = "str" THEN t.s ELSE <<>>)

\* t.get("body","") if isinstance(t, dict) else str(t or "")
TextOf(t) ==
  IF t.k = "dict" THEN GetOrEmpty(t.body)
  ELSE LET v == GetOrEmpty([k |-> t.k, s |-> t.s])
       IN  Str(PyStr(Or(v, Str(<<>>))))

\* msg.get("contact", {}).get("name", "").strip(): AttributeError when the
\* contact is no dict, or the name is no string
ContactRaises(c) ==
  \/ c.k # "absent" /\ c.k # "dict"
  \/ c.k = "dict" /\ GetOrEmpty(c.name).k # "str"

\* content.get(...): AttributeError when the message is a true value that is
\* no dict (a non-empty string)
ContentRaises(m) == m.k = "str"

parse_infobip_message(msg) ==
  LET sender == Get(msg.from)
  IN
  IF ~Truthy(sender) THEN NoResult
  ELSE IF ContactRaises(msg.contact) THEN Raised
  ELSE
    LET stripped == IF msg.contact.k = "absent" THEN <<>>
                    ELSE Strip(GetOrEmpty(msg.contact.name).s)
        contact_name == IF stripped # <<>> THEN stripped ELSE sender.s
    IN
    IF ContentRaises(msg.message) THEN Raised
    ELSE
      LET content == IF msg.message.k = "dict" THEN msg.message ELSE EmptyContent
          msg_type_raw ==
            Upper(PyStr(IF content.type.k = "absent" THEN Str(TEXT) ELSE content.type))
          media_id == Or(Get(content.mediaId), Get(content.id))
          media_url == Or(Get(content.url), Get(content.mediaUrl))
      IN
      IF msg_type_raw \in MediaTags
      THEN [raised |-> FALSE, none |-> FALSE,
            text |-> Str(<<>>),
            msg_type |-> Lower(msg_type_raw),
            media_identifier |->
              IF Truthy(media_id) THEN PyStr(media_id)
              ELSE IF Truthy(media_url) THEN extract_media_id_from_url(media_url.s)
              ELSE <<>>,
            caption |-> Or(GetOrEmpty(content.caption), Str(<<>>)).s,
            sender |-> sender.s,
            contact_name |-> contact_name]
      ELSE [raised |-> FALSE, none |-> FALSE,
            text |-> TextOf(content.text),
            msg_type |-> text_type,
            media_identifier |-> <<>>,
            caption |-> <<>>,
            sender |-> sender.s,
            contact_name |-> contact_name]

\* ------------------------------------------------------------------- inputs
P1  == <<"1">>
P2  == <<"2">>
Ada == <<"A","d","a">>
Bob == <<"B","o","b">>
Hi  == <<"h","i">>
M1  == <<"m","1">>
Cap == <<"c">>

Phones == {P1, P2}

CAbsent     == [k |-> "absent", name |-> Absent]
CNull       == [k |-> "null",   name |-> Absent]
CStr        == [k |-> "str",    name |-> Absent]
CDict(name) == [k |-> "dict",   name |-> name]

TAbsent     == EmptyText
TNull       == [k |-> "null", s |-> <<>>, body |-> Absent]
TStr(s)     == [k |-> "str",  s |-> s,    body |-> Absent]
TDict(body) == [k |-> "dict", s |-> <<>>, body |-> body]

MAbsent == [EmptyContent EXCEPT !.k = "absent"]
MNull   == [EmptyContent EXCEPT !.k = "null"]
MStr    == [EmptyContent EXCEPT !.k = "str"]

Event(from, contact, message) ==
  [from |-> from, contact |-> contact, message |-> message]

\* {"from":"1","contact":{"name":"Ada"},"message":{"type":"TEXT","text":{"body":"hi"}}}
EvText ==
  Event(Str(P1), CDict(Str(Ada)),
        [EmptyContent EXCEPT !.type = Str(TEXT), !.text = TDict(Str(Hi))])
\* {"from":"1","contact":{"name":"Bob"},"message":{"type":"image","mediaId":"m1","caption":"c"}}
EvImage ==
  Event(Str(P1), CDict(Str(Bob)),
        [EmptyContent EXCEPT !.type = Str(<<"i","m","a","g","e">>),
                             !.mediaId = Str(M1), !.caption = Str(Cap)])
\* {"from":"2"}: every optional field missing
EvBare == Event(Str(P2), CAbsent, MAbsent)
\* {"contact":{"name":"Ada"},"message":{"text":"hi"}}: no sender
EvNoFrom ==
  Event(Absent, CDict(Str(Ada)), [EmptyContent EXCEPT !.text = TStr(Hi)])
\* {"from":"1","contact":null}
EvNullContact == Event(Str(P1), CNull, MAbsent)

\* the events posted in the runs of the messages relation, of the contacts
\* relation and of the endpoint
StoreEvents   == {EvText, EvBare}
ContactEvents == {EvText, EvImage, EvBare}
IngestEvents  == {EvText, EvBare, EvNoFrom, EvNullContact}

SeqsUpTo(S, n) == UNION {[1..m -> S] : m \in 0..n}

\* a key of the body that may hold an array
NoArray  == [k |-> "absent", items |-> <<>>]
Array(b) == [k |-> "list", items |-> b]

\* the request body: not JSON, JSON that is no object, or an object
NotJson   == [kind |-> "invalid",   results |-> NoArray, messages |-> NoArray]
NotObject == [kind |-> "nonobject", results |-> NoArray, messages |-> NoArray]
Object(r, m) == [kind |-> "object", results |-> r, messages |-> m]

StoreBodies ==
  {Object(Array(b), NoArray) : b \in SeqsUpTo(StoreEvents, MaxBatch) \ {<<>>}}

ContactBodies ==
  {Object(Array(b), NoArray) : b \in SeqsUpTo(ContactEvents, MaxBatch) \ {<<>>}}

IngestBodies ==
  {NotJson, NotObject} \cup
  {Object(r, m) :
     r \in {NoArray} \cup {Array(b) : b \in SeqsUpTo(IngestEvents, MaxBatch)},
     m \in {NoArray} \cup {Array(b) : b \in SeqsUpTo({EvBare, EvNoFrom}, 1)}}

\* -------------------------------------------------------------------- state
VARIABLES
  contacts,     \* the contacts relation: rows [phone, name] in insertion order
  messages,     \* the messages relation: rows in insertion order
  msg_id_seq,   \* the SERIAL behind messages.id: the last id given out
  clock,        \* datetime.utcnow() of each process
  dbUp,         \* the database accepts connections
  req,          \* the webhook's requests in flight
  appConn,      \* the dashboard's cached connection: none, alive or dead
  appOp,        \* the dashboard's last Store operation and how it ended
  fetched,      \* what the dashboard's last fetch returned
  lastUpsert,   \* history: the name of the last committed upsert, per phone
  appended,     \* history: the number of committed inserts
  norm,         \* the normalizer applied to one event
  relay         \* the media relay's request

vars ==
  <<contacts, messages, msg_id_seq, clock, dbUp, req, appConn, appOp,
    fetched, lastUpsert, appended, norm, relay>>

Reqs  == {1, 2}
Procs == {"webhook", "app"}

IdleReq ==
  [pc |-> "idle", body |-> NotJson, results |-> <<>>, i |-> 0, received |-> 0,
   status |-> 0, error |-> "", conn |-> "none", parsed |-> NoResult,
   failedAt |-> 0]

NoOp == [held |-> "none", up |-> TRUE, result |-> "none"]
NoView == [op |-> "none", sel |-> <<>>, rows |-> <<>>, n |-> 0]
NoName == [set |-> FALSE, name |-> <<>>, over |-> FALSE]
NoNorm == [event |-> EvBare, result |-> NoResult, done |-> FALSE]
IdleRelay ==
  [pc |-> "idle", auth |-> TRUE, sender |-> TRUE, identifier |-> <<>>,
   media_id |-> <<>>, upstream |-> 0, status |-> 0, left |-> 0, sent |-> 0,
   opened |-> 0, closed |-> 0, media_type |-> "", exit |-> "",
   asked |-> 0, text_len |-> 0, detail |-> 0,
   origin |-> <<>>, direction |-> "", link |-> <<>>]

InitStore ==
  /\ contacts = <<>>
  /\ messages = <<>>
  /\ msg_id_seq = 0
  /\ clock = [p \in Procs |-> 0]
  /\ dbUp = TRUE
  /\ req = [r \in Reqs |-> IdleReq]
  /\ appConn = "alive"
  /\ appOp = NoOp
  /\ fetched = NoView
  /\ lastUpsert = [p \in Phones |-> NoName]
  /\ appended = 0

Init ==
  /\ InitStore
  /\ norm = NoNorm
  /\ relay = IdleRelay

\* -------------------------------------------------------------------- store
\* mutant: ON CONFLICT(phone) DO NOTHING
UpsertRowKeepFirst(cs, phone, name) ==
  IF \E i \in 1..Len(cs) : cs[i].phone = phone
  THEN cs
  ELSE Append(cs, [phone |-> phone, name |-> name])

\* mutant: a plain INSERT into a table without the UNIQUE constraint
UpsertRowAppend(cs, phone, name) == Append(cs, [phone |-> phone, name |-> name])

\* INSERT INTO contacts ... ON CONFLICT(phone) DO UPDATE SET name=EXCLUDED.name
UpsertRow(cs, phone, name) ==
  IF \E i \in 1..Len(cs) : cs[i].phone = phone
  THEN [i \in 1..Len(cs) |->
          IF cs[i].phone = phone THEN [cs[i] EXCEPT !.name = name] ELSE cs[i]]
  ELSE Append(cs, [phone |-> phone, name |-> name])

\* history of a phone's upserts: the last name, and whether an upsert has
\* replaced another name
Upserted(h, name) ==
  [set |-> TRUE, name |-> name, over |-> h.over \/ (h.set /\ h.name # name)]

SameFields(a, b) == [a EXCEPT !.id = 0, !.timestamp = 0] = [b EXCEPT !.id = 0, !.timestamp = 0]

\* mutant: a message whose fields an existing row already holds is merged
\* into that row
InsertRowMerge(ms, row) ==
  IF \E i \in 1..Len(ms) : SameFields(ms[i], row) THEN ms ELSE Append(ms, row)

\* mutant: the conversation's latest row is rewritten with the new message
InsertRowRewrite(ms, row) ==
  IF \E i \in 1..Len(ms) : ms[i].phone = row.phone
  THEN LET last == CHOOSE i \in 1..Len(ms) :
                     ms[i].phone = row.phone /\
                     \A j \in 1..Len(ms) : ms[j].phone = row.phone => j <= i
       IN  Append([ms EXCEPT ![last].direction = row.direction], row)
  ELSE Append(ms, row)

\* INSERT INTO messages (...) VALUES (...)
InsertRow(ms, row) == Append(ms, row)

Row(id, phone, message_text, direction, ts, msg_type, media_link, caption) ==
  [id |-> id, phone |-> phone, message |-> message_text,
   direction |-> direction, timestamp |-> ts, message_type |-> msg_type,
   media_link |-> media_link, caption |-> caption]

\* ------------------------------------------------------- ingestion endpoint
\* events of request r that may still reach insert_message
Pending(r) ==
  IF req[r].pc \in {"loop", "upserted"} THEN Len(req[r].results) - req[r].i + 1 ELSE 0

PendingAll == Pending(1) + Pending(2)

\* mutant: "messages" is looked at first
SelectBatchMessagesFirst(body) ==
  IF body.messages.items # <<>> THEN body.messages.items ELSE body.results.items

\* payload.get("results", []) or payload.get("messages", [])
SelectBatch(body) ==
  IF body.results.items # <<>> THEN body.results.items ELSE body.messages.items

\* mutant: the exception is swallowed and the loop goes on to the next event
FailAndGoOn(rq, status, error) ==
  [rq EXCEPT !.error = error, !.failedAt = rq.i,
             !.pc = IF rq.pc = "idle" THEN "done" ELSE "loop",
             !.status = IF rq.pc = "idle" THEN status ELSE 0,
             !.i = rq.i + 1]

\* the exception leaves the handler: the finally block closes the connection
\* and the request is answered with the error's status
Fail(rq, status, error) ==
  [rq EXCEPT !.pc = "done", !.status = status, !.error = error,
             !.conn = IF rq.conn = "none" THEN "none" ELSE "closed",
             !.failedAt = rq.i]

\* lines 131-142: the body is decoded, the batch selected, the connection opened
Post(r, body) ==
  /\ req[r].pc = "idle"
  /\ body.kind = "object" =>
       Len(messages) + PendingAll + Len(SelectBatch(body)) <= MaxMsgs
  /\ LET rq == [req[r] EXCEPT !.body = body]
     IN  req' = [req EXCEPT ![r] =
           IF body.kind = "invalid" THEN Fail(rq, 400, "HTTPException")
           ELSE IF body.kind = "nonobject" THEN Fail(rq, 500, "AttributeError")
           ELSE IF SelectBatch(body) = <<>>
                THEN [rq EXCEPT !.pc = "done", !.status = 200, !.received = 0]
           ELSE IF ~dbUp THEN Fail(rq, 500, "OperationalError")
           ELSE [rq EXCEPT !.pc = "loop", !.results = SelectBatch(body),
                           !.i = 1, !.received = 0, !.conn = "open"]]
  /\ UNCHANGED <<contacts, messages, msg_id_seq, clock, dbUp, appConn, appOp,
                 fetched, lastUpsert, appended, norm, relay>>

\* mutant: a skipped event is counted
ContinueCounted(rq) == [rq EXCEPT !.i = rq.i + 1, !.received = rq.received + 1]

\* lines 146-147: continue, the loop goes on to the next event
Continue(rq) == [rq EXCEPT !.i = rq.i + 1]

\* lines 144-149: the next event is normalized; a skipped one is passed over,
\* any other has its contact upserted and committed
NextEvent(r) ==
  /\ req[r].pc = "loop"
  /\ req[r].i <= Len(req[r].results)
  /\ LET rq == req[r]
         parsed == parse_infobip_message(rq.results[rq.i])
     IN  IF parsed.raised
         THEN /\ req' = [req EXCEPT ![r] = Fail(rq, 500, "AttributeError")]
              /\ UNCHANGED <<contacts, lastUpsert>>
         ELSE IF parsed.none
         THEN /\ req' = [req EXCEPT ![r] = Continue(rq)]
              /\ UNCHANGED <<contacts, lastUpsert>>
         ELSE IF rq.conn # "open"
         THEN /\ req' = [req EXCEPT ![r] = Fail(rq, 500, "OperationalError")]
              /\ UNCHANGED <<contacts, lastUpsert>>
         ELSE /\ contacts' = UpsertRow(contacts, parsed.sender, parsed.contact_name)
              /\ lastUpsert' = [lastUpsert EXCEPT ![parsed.sender] =
                                  Upserted(@, parsed.contact_name)]
              /\ req' = [req EXCEPT ![r].pc = "upserted", ![r].parsed = parsed]
  /\ UNCHANGED <<messages, msg_id_seq, clock, dbUp, appConn, appOp,
                 fetched, appended, norm, relay>>

\* lines 150-151: the message is inserted and committed, the counter incremented
InsertEvent(r) ==
  /\ req[r].pc = "upserted"
  /\ LET rq == req[r]
         p == rq.parsed
     IN  IF rq.conn # "open"
         THEN /\ req' = [req EXCEPT ![r] = Fail(rq, 500, "OperationalError")]
              /\ UNCHANGED <<messages, msg_id_seq, appended>>
         ELSE /\ messages' = InsertRow(messages,
                   Row(msg_id_seq + 1, p.sender, p.text, "inbound", clock["webhook"],
                       p.msg_type, p.media_identifier, p.caption))
              /\ msg_id_seq' = msg_id_seq + 1
              /\ appended' = appended + 1
              /\ req' = [req EXCEPT ![r].pc = "loop", ![r].i = rq.i + 1,
                                    ![r].received = rq.received + 1,
                                    ![r].parsed = NoResult]
  /\ UNCHANGED <<contacts, clock, dbUp, appConn, appOp,
                 fetched, lastUpsert, norm, relay>>

\* lines 152-154: the count is returned and the connection closed
Return(r) ==
  /\ req[r].pc = "loop"
  /\ req[r].i > Len(req[r].results)
  /\ req' = [req EXCEPT ![r].pc = "done", ![r].status = 200, ![r].conn = "closed"]
  /\ UNCHANGED <<contacts, messages, msg_id_seq, clock, dbUp, appConn, appOp,
                 fetched, lastUpsert, appended, norm, relay>>

\* the response is delivered: the worker takes the next request
Ack(r) ==
  /\ req[r].pc = "done"
  /\ req' = [req EXCEPT ![r] = IdleReq]
  /\ UNCHANGED <<contacts, messages, msg_id_seq, clock, dbUp, appConn, appOp,
                 fetched, lastUpsert, appended, norm, relay>>

\* -------------------------------------------------------------- environment
\* datetime.utcnow() of process p moves on
Tick(p) ==
  /\ clock[p] < MaxTime
  /\ clock' = [clock EXCEPT ![p] = clock[p] + 1]
  /\ UNCHANGED <<contacts, messages, msg_id_seq, dbUp, req, appConn, appOp,
                 fetched, lastUpsert, appended, norm, relay>>

\* the database goes away: every open connection is dead from here on
DbDown ==
  /\ dbUp
  /\ dbUp' = FALSE
  /\ req' = [r \in Reqs |->
               IF req[r].conn = "open" THEN [req[r] EXCEPT !.conn = "dead"] ELSE req[r]]
  /\ appConn' = IF appConn = "alive" THEN "dead" ELSE appConn
  /\ UNCHANGED <<contacts, messages, msg_id_seq, clock, appOp,
                 fetched, lastUpsert, appended, norm, relay>>

\* the database is back: new connections can be made, the dead ones stay dead
DbUp ==
  /\ ~dbUp
  /\ dbUp' = TRUE
  /\ UNCHANGED <<contacts, messages, msg_id_seq, clock, req, appConn, appOp,
                 fetched, lastUpsert, appended, norm, relay>>

\* the server drops the dashboard's idle connection
AppConnDrop ==
  /\ appConn = "alive"
  /\ appConn' = "dead"
  /\ UNCHANGED <<contacts, messages, msg_id_seq, clock, dbUp, req, appOp,
                 fetched, lastUpsert, appended, norm, relay>>

\* --------------------------------------------------- dashboard's connection
\* get_db_connection under st.cache_resource: the cached connection is handed
\* back as it is, alive or dead; only an empty cache connects
get_db_connection(cached, up) ==
  IF cached = "none" THEN (IF up THEN "alive" ELSE "failed") ELSE cached

\* ensure_connection: SELECT 1 on the held connection, get_db_connection()
\* when the probe raises
ensure_connection(conn, cached, up) ==
  IF conn = "alive" THEN conn ELSE get_db_connection(cached, up)

\* what a Store operation of the dashboard runs on: conn of line 148, then the
\* operation's own ensure_connection(conn)
OpConn ==
  LET conn == get_db_connection(appConn, dbUp)
  IN  IF conn = "failed" THEN "failed" ELSE ensure_connection(conn, conn, dbUp)

\* how the operation ends: on a live connection, with psycopg2's
\* "connection already closed", or with the connect refused
OpResult ==
  CASE OpConn = "alive"  -> "ok"
    [] OpConn = "dead"   -> "stale"
    [] OpConn = "failed" -> "unavailable"

OpRecord == [held |-> appConn, up |-> dbUp, result |-> OpResult]

\* the cached connection after the operation
ConnAfter == IF OpConn = "failed" THEN "none" ELSE OpConn

\* lines 16-19: the cache is cleared and the script reruns, line 148 connects
ResetApp ==
  /\ appConn' = get_db_connection("none", dbUp)
  /\ appConn' # appConn
  /\ UNCHANGED <<contacts, messages, msg_id_seq, clock, dbUp, req, appOp,
                 fetched, lastUpsert, appended, norm, relay>>

\* ------------------------------------------------------- dashboard's store
All == <<"A","l","l">>

Injective(f) == \A a, b \in DOMAIN f : a # b => f[a] # f[b]

\* SELECT * FROM messages [WHERE phone=%s] ORDER BY timestamp ASC: every
\* order of the selected rows that ascends in timestamp; the order of rows
\* of one timestamp is the database's choice
fetch_messages(ms, phone) ==
  LET sel == {i \in 1..Len(ms) : phone = All \/ ms[i].phone = phone}
      orders == {f \in [1..Cardinality(sel) -> sel] :
                   /\ Injective(f)
                   /\ \A a, b \in DOMAIN f :
                        a < b => ms[f[a]].timestamp <= ms[f[b]].timestamp}
  IN  {[j \in DOMAIN f |-> ms[f[j]]] : f \in orders}

\* SELECT phone, name FROM contacts, as {phone: name}: a later row of a phone
\* replaces an earlier one
fetch_contacts(cs) ==
  [p \in {cs[i].phone : i \in 1..Len(cs)} |->
     cs[CHOOSE i \in 1..Len(cs) :
          cs[i].phone = p /\ \A j \in 1..Len(cs) : cs[j].phone = p => j <= i].name]

\* lines 196 and 211: fetch_messages(conn, phone); the sidebar offers "All" and
\* the phones of the conversations in the store
AppFetchMessages(phone) ==
  /\ phone = All \/ \E i \in 1..Len(messages) : messages[i].phone = phone
  /\ appOp' = OpRecord
  /\ appConn' = ConnAfter
  /\ IF OpResult = "ok"
     THEN \E rows \in fetch_messages(messages, phone) :
            fetched' = [op |-> "fetch_messages", sel |-> phone, rows |-> rows,
                        n |-> Len(messages)]
     ELSE UNCHANGED fetched
  /\ UNCHANGED <<contacts, messages, msg_id_seq, clock, dbUp, req,
                 lastUpsert, appended, norm, relay>>

\* line 197: contacts = fetch_contacts(conn)
AppFetchContacts ==
  /\ appOp' = OpRecord
  /\ appConn' = ConnAfter
  /\ IF OpResult = "ok"
     THEN fetched' = [op |-> "fetch_contacts", sel |-> <<>>,
                      rows |-> fetch_contacts(contacts), n |-> Len(contacts)]
     ELSE UNCHANGED fetched
  /\ UNCHANGED <<contacts, messages, msg_id_seq, clock, dbUp, req,
                 lastUpsert, appended, norm, relay>>

EndsWith(s, suffix) ==
  /\ Len(suffix) <= Len(s)
  /\ SubSeq(s, Len(s) - Len(suffix) + 1, Len(s)) = suffix

ImageSuffixes ==
  { <<".","j","p","g">>, <<".","j","p","e","g">>, <<".","p","n","g">>,
    <<".","g","i","f">> }
VideoSuffixes ==
  { <<".","m","p","4">>, <<".","m","o","v">>, <<".","w","e","b","m">> }

\* mutant: the typed message is stored with a media row as well
SendRowKeepsText(id, ts, recipient, message_text, media_url, media_caption) ==
  IF Strip(media_url) # <<>>
  THEN Row(id, recipient, Str(Strip(message_text)), "outbound", ts,
           <<"d","o","c","u","m","e","n","t">>,
           Strip(media_url), Strip(media_caption))
  ELSE Row(id, recipient, Str(Strip(message_text)), "outbound", ts,
           text_type, <<>>, <<>>)

\* lines 281-301: the row the Send handler writes
SendRow(id, ts, recipient, message_text, media_url, media_caption) ==
  IF Strip(media_url) # <<>>
  THEN Row(id, recipient, Str(<<>>), "outbound", ts,
           IF \E x \in ImageSuffixes : EndsWith(Lower(media_url), x)
             THEN <<"i","m","a","g","e">>
           ELSE IF \E x \in VideoSuffixes : EndsWith(Lower(media_url), x)
             THEN <<"v","i","d","e","o">>
           ELSE <<"d","o","c","u","m","e","n","t">>,
           Strip(media_url), Strip(media_caption))
  ELSE Row(id, recipient, Str(Strip(message_text)), "outbound", ts,
           text_type, <<>>, <<>>)

\* lines 275-305: Send; the insert runs on ensure_connection(conn)
AppSend(recipient, message_text, media_url, media_caption) ==
  /\ Strip(recipient) # <<>>
  /\ Strip(message_text) # <<>> \/ Strip(media_url) # <<>>
  /\ Len(messages) + PendingAll < MaxMsgs
  /\ appOp' = OpRecord
  /\ appConn' = ConnAfter
  /\ IF OpResult = "ok"
     THEN /\ messages' = InsertRow(messages,
               SendRow(msg_id_seq + 1, clock["app"], recipient, message_text,
                       media_url, media_caption))
          /\ msg_id_seq' = msg_id_seq + 1
          /\ appended' = appended + 1
     ELSE UNCHANGED <<messages, msg_id_seq, appended>>
  /\ UNCHANGED <<contacts, clock, dbUp, req, fetched, lastUpsert, norm, relay>>

\* lines 174-182: upsert_contact of the dashboard
AppUpsert(phone, name) ==
  /\ appOp' = OpRecord
  /\ appConn' = ConnAfter
  /\ IF OpResult = "ok"
     THEN /\ contacts' = UpsertRow(contacts, phone, name)
          /\ lastUpsert' = [lastUpsert EXCEPT ![phone] = Upserted(@, name)]
     ELSE UNCHANGED <<contacts, lastUpsert>>
  /\ UNCHANGED <<messages, msg_id_seq, clock, dbUp, req, fetched, appended,
                 norm, relay>>

\* FASTAPI_PROXY_BASE, its trailing "/" removed
FASTAPI_PROXY_BASE == <<"h","t","t","p",":","/","/","p">>

MediaProxyRoute == <<"/","m","e","d","i","a","-","p","r","o","x","y","/">>

\* lines 216-222
build_proxy_url(media_identifier, direction) ==
  IF media_identifier = <<>> THEN <<>>
  ELSE IF direction = "outbound" \/ StartsWith(media_identifier, <<"h","t","t","p">>)
  THEN media_identifier
  ELSE FASTAPI_PROXY_BASE \o MediaProxyRoute \o quote_plus(media_identifier)

Yo     == <<"y","o">>
PngUrl == <<"h","t","t","p","s",":","/","/","h","/","a",".","P","N","G">>

\* what is typed into the Send form: recipient, text, media URL, caption
SendForms == { <<P1, Yo, <<>>, Cap>>, <<P2, <<>>, PngUrl, Cap>> }

\* {"from":"2","message":{"type":"IMAGE","text":"hi","mediaUrl":"https://h/v/m3?x","caption":"c"}}
EvImageWithText ==
  Event(Str(P2), CAbsent,
        [EmptyContent EXCEPT !.type = Str(<<"I","M","A","G","E">>), !.text = TStr(Hi),
                             !.mediaUrl = Str(<<"h","t","t","p","s",":","/","/","h","/","v","/","m","3","?","x">>),
                             !.caption = Str(Cap)])
\* {"from":"2","contact":{"name":"Bob"},"message":{"text":{"body":"hi"},"mediaId":"m1","caption":"c"}}
EvTextWithMedia ==
  Event(Str(P2), CDict(Str(Bob)),
        [EmptyContent EXCEPT !.text = TDict(Str(Hi)), !.mediaId = Str(M1),
                             !.caption = Str(Cap)])

\* {"from":"1","message":{"type":"audio","id":"m1","text":{"body":"hi"}}}
EvAudio ==
  Event(Str(P1), CAbsent,
        [EmptyContent EXCEPT !.type = Str(<<"a","u","d","i","o">>), !.id = Str(M1),
                             !.text = TDict(Str(Hi))])

\* the events and the Send forms of the runs of the rows' fields: a media
\* event that carries a text, a text event that carries media fields, a form
\* with both the message and the URL filled in, a form with a document
RowEvents == {EvText, EvImage, EvImageWithText, EvTextWithMedia, EvAudio}

RowBodies ==
  {Object(Array(b), NoArray) : b \in SeqsUpTo(RowEvents, MaxBatch) \ {<<>>}}

PdfUrl == <<"h","t","t","p","s",":","/","/","h","/","a",".","p","d","f">>

RowForms == SendForms \cup { <<P1, Yo, PngUrl, Cap>>, <<P2, Yo, PdfUrl, <<>>>> }

SendRows == \E f \in RowForms : AppSend(f[1], f[2], f[3], f[4])

\* -------------------------------------------------------------- media relay
\* resp.text[:500]: the characters of the upstream's error text that the
\* relay's error body quotes
ErrorTextLimit == 500

\* mutant: the upstream's error text is quoted whole
error_text_whole(n) == n

\* len(resp.text[:500]) for a text of n characters
error_text(n) == IF n > ErrorTextLimit THEN ErrorTextLimit ELSE n

\* the upstream's answers: the connection refused, or a status with an error
\* text of some length, or 200 with a body of some chunks and a Content-Type
\* header ("" when it sends none)
Upstreams ==
  {[connected |-> FALSE, code |-> 0, chunks |-> 0, content_type |-> "", text |-> 0]} \cup
  {[connected |-> TRUE, code |-> c, chunks |-> 0, content_type |-> "", text |-> n] :
     c \in {404, 500}, n \in {0, ErrorTextLimit, ErrorTextLimit + 1}} \cup
  {[connected |-> TRUE, code |-> 200, chunks |-> n, content_type |-> t, text |-> 0] :
     n \in 0..MaxChunks, t \in {"", "image/png"}}

\* the path parameter as the handler receives it
RelayIdentifiers == { M1, <<"a","%","2","B","b">>, <<"a","+","b">> }

\* lines 160-186: the handler up to the StreamingResponse it returns; the body
\* iterator is created and not yet started
media_proxy(identifier, up) ==
  /\ relay.pc = "idle"
  /\ relay' =
       IF ~relay.auth \/ ~relay.sender
       THEN [relay EXCEPT !.pc = "done", !.identifier = identifier,
                          !.status = 500, !.exit = "misconfigured"]
       ELSE LET r == [relay EXCEPT !.identifier = identifier,
                                   !.media_id = unquote_plus(identifier),
                                   !.upstream = up.code,
                                   !.asked = 1]
            IN  IF ~up.connected
                THEN [r EXCEPT !.pc = "done", !.status = 502, !.exit = "unreachable"]
                ELSE IF up.code # 200
                THEN [r EXCEPT !.pc = "done", !.status = up.code, !.opened = 1,
                               !.text_len = up.text,
                               !.detail = error_text(up.text),
                               !.exit = "rejected"]
                ELSE [r EXCEPT !.pc = "created", !.status = 200, !.opened = 1,
                               !.left = up.chunks,
                               !.media_type =
                                 IF up.content_type = ""
                                 THEN "application/octet-stream"
                                 ELSE up.content_type]
  /\ UNCHANGED <<contacts, messages, msg_id_seq, clock, dbUp, req, appConn,
                 appOp, fetched, lastUpsert, appended, norm>>

\* lines 179-182: the iterator is advanced and yields the next chunk; the
\* first advance enters the try block
StreamChunk ==
  /\ relay.pc \in {"created", "streaming"}
  /\ relay.left > 0
  /\ relay' = [relay EXCEPT !.pc = "streaming", !.left = @ - 1, !.sent = @ + 1]
  /\ UNCHANGED <<contacts, messages, msg_id_seq, clock, dbUp, req, appConn,
                 appOp, fetched, lastUpsert, appended, norm>>

\* lines 180-184: the iterator is advanced and the body is at its end: the
\* loop ends and the finally block closes the response
StreamEnd ==
  /\ relay.pc \in {"created", "streaming"}
  /\ relay.left = 0
  /\ relay' = [relay EXCEPT !.pc = "done", !.closed = @ + 1, !.exit = "end"]
  /\ UNCHANGED <<contacts, messages, msg_id_seq, clock, dbUp, req, appConn,
                 appOp, fetched, lastUpsert, appended, norm>>

\* lines 180-184: the iterator is advanced and iter_content raises: the
\* finally block closes the response
StreamError ==
  /\ relay.pc \in {"created", "streaming"}
  /\ relay' = [relay EXCEPT !.pc = "done", !.closed = @ + 1, !.exit = "error"]
  /\ UNCHANGED <<contacts, messages, msg_id_seq, clock, dbUp, req, appConn,
                 appOp, fetched, lastUpsert, appended, norm>>

\* the caller disconnects and the server drops the iterator. One suspended at
\* its yield gets GeneratorExit there and runs the finally block; one never
\* advanced has not entered the try block, and none of its code runs
CallerGone ==
  /\ relay.pc \in {"created", "streaming"}
  /\ relay' = [relay EXCEPT !.pc = "done", !.exit = "disconnect",
                            !.closed = IF relay.pc = "streaming" THEN @ + 1 ELSE @]
  /\ UNCHANGED <<contacts, messages, msg_id_seq, clock, dbUp, req, appConn,
                 appOp, fetched, lastUpsert, appended, norm>>

\* the media_link of the rows the dashboard renders
LinkIdentifiers ==
  { M1, <<"a","+","b">>, <<"a"," ","b">>, <<"a","%","4","1">>, <<"a","/","b">>,
    <<"h","t","t","p","1">>, PngUrl }

\* lines 234-236: render_bubble builds the link of a row that has a media_link
RenderLink(media_link, direction) ==
  /\ relay.pc = "idle"
  /\ relay.link = <<>>
  /\ media_link # <<>>
  /\ relay' = [relay EXCEPT !.origin = media_link, !.direction = direction,
                            !.link = build_proxy_url(media_link, direction)]
  /\ UNCHANGED <<contacts, messages, msg_id_seq, clock, dbUp, req, appConn,
                 appOp, fetched, lastUpsert, appended, norm>>

\* the path of a request as the application receives it: the server has
\* decoded the percent-encoded sequences of the request target's path
RequestPath(url) == unquote(UrlPath(url))

\* line 159: the route /media-proxy/{media_identifier} matches a path of that
\* prefix and one non-empty segment
RouteMatches(path) ==
  /\ StartsWith(path, MediaProxyRoute)
  /\ Len(path) > Len(MediaProxyRoute)
  /\ \A i \in (Len(MediaProxyRoute) + 1)..Len(path) : path[i] # "/"

PathParam(path) == SubSeq(path, Len(MediaProxyRoute) + 1, Len(path))

\* the viewer requests a link that points at the relay: the route's handler
\* runs on the path parameter, or no route matches and the answer is 404
FollowLink(up) ==
  /\ relay.pc = "idle"
  /\ StartsWith(relay.link, FASTAPI_PROXY_BASE \o <<"/">>)
  /\ LET path == RequestPath(relay.link)
     IN  IF RouteMatches(path)
         THEN media_proxy(PathParam(path), up)
         ELSE /\ relay' = [relay EXCEPT !.pc = "done", !.status = 404,
                                        !.exit = "noroute"]
              /\ UNCHANGED <<contacts, messages, msg_id_seq, clock, dbUp, req,
                             appConn, appOp, fetched, lastUpsert, appended, norm>>

\* API_KEY and SENDER_NUMBER of the environment are set or not
InitRelay ==
  /\ InitStore
  /\ norm = NoNorm
  /\ relay \in {[IdleRelay EXCEPT !.auth = a, !.sender = n] : a, n \in BOOLEAN}

NextRelay ==
  \/ \E identifier \in RelayIdentifiers, up \in Upstreams : media_proxy(identifier, up)
  \/ StreamChunk
  \/ StreamEnd
  \/ StreamError
  \/ CallerGone

SpecRelay == InitRelay /\ [][NextRelay]_vars

\* the dashboard's links and the relay behind them
NextLink ==
  \/ \E m \in LinkIdentifiers, d \in {"inbound", "outbound"} : RenderLink(m, d)
  \/ \E up \in Upstreams : FollowLink(up)
  \/ StreamChunk
  \/ StreamEnd
  \/ StreamError
  \/ CallerGone

SpecLink == InitRelay /\ [][NextLink]_vars

\* ----------------------------------------------------------- specifications
Ingest(r, bodies) ==
  \/ \E body \in bodies : Post(r, body)
  \/ NextEvent(r)
  \/ InsertEvent(r)
  \/ Return(r)
  \/ Ack(r)

FetchMessages == \E phone \in Phones \cup {All} : AppFetchMessages(phone)
Send          == \E f \in SendForms : AppSend(f[1], f[2], f[3], f[4])
Upsert        == \E phone \in Phones, name \in {Ada, Bob} : AppUpsert(phone, name)

\* the messages relation under one webhook worker and the dashboard
Next ==
  \/ Ingest(1, StoreBodies)
  \/ FetchMessages
  \/ Send
  \/ \E p \in Procs : Tick(p)

Spec == Init /\ [][Next]_vars

\* the contacts relation under one webhook worker and the dashboard
NextContacts ==
  \/ Ingest(1, ContactBodies)
  \/ Upsert
  \/ AppFetchContacts

SpecContacts == Init /\ [][NextContacts]_vars

\* the handler of one request, from its arrival to its answer
Handle(r, bodies) ==
  \/ \E body \in bodies : Post(r, body)
  \/ NextEvent(r)
  \/ InsertEvent(r)
  \/ Return(r)

\* two requests served at once, each on a connection of its own, every
\* statement committed on its own
NextConcurrent == \E r \in Reqs : Handle(r, ContactBodies)

SpecConcurrent == Init /\ [][NextConcurrent]_vars

\* the fields of the rows that the webhook and the Send handler write
NextRows ==
  \/ Ingest(1, RowBodies)
  \/ SendRows

SpecRows == Init /\ [][NextRows]_vars

\* the endpoint under every body, with the database coming and going
NextIngest ==
  \/ Ingest(1, IngestBodies)
  \/ DbDown
  \/ DbUp

SpecIngest == Init /\ [][NextIngest]_vars

\* the dashboard's Store operations, with its connection and the database
\* coming and going
NextConn ==
  \/ FetchMessages
  \/ AppFetchContacts
  \/ Send
  \/ Upsert
  \/ AppConnDrop
  \/ DbDown
  \/ DbUp
  \/ ResetApp

SpecConn == Init /\ [][NextConn]_vars

\* ----------------------------------------------------- the normalizer alone
Url1 == <<"h","t","t","p","s",":","/","/","h","/","v","/","m","3","?","x">>

M2   == <<"m","2">>
Url2 == <<"h","t","t","p",":","/","/","h","/","m","4","/">>

\* media events: every tag, in upper, lower and mixed case, with the media id
\* and the media URL under either of their keys, present, empty or missing
MediaEvents ==
  { Event(Str(P1), CAbsent,
          [EmptyContent EXCEPT !.type = Str(ty), !.caption = ca, !.mediaId = mi,
                               !.id = id, !.url = u, !.mediaUrl = mu]) :
      ty \in MediaTags \cup {<<"v","i","d","e","o">>, <<"V","o","i","c","e">>},
      ca \in {Absent, Str(Cap)},
      mi \in {Absent, Null, Str(<<>>), Str(M1)},
      id \in {Absent, Str(M2)},
      u  \in {Absent, Str(Url2)},
      mu \in {Absent, Str(Url1)} }

\* one event of every shape of its fields: absent, null, of another type,
\* empty, blank, or as the provider sends it
ParseEvents ==
  { Event(from, contact, message) :
      from \in {Absent, Null, Str(<<>>), Str(P1)},
      contact \in {CAbsent, CNull, CStr} \cup
                  {CDict(n) : n \in {Absent, Null, Num(<<"7">>), Str(<<>>),
                                     Str(<<" ">>), Str(<<" ">> \o Ada \o <<" ">>)}},
      message \in {MAbsent, MNull, MStr} \cup
        { [EmptyContent EXCEPT !.type = ty, !.text = tx, !.caption = ca,
                               !.mediaId = mi, !.mediaUrl = mu] :
            ty \in {Absent, Null, Str(TEXT), Str(text_type), Str(<<"I","m","a","g","e">>),
                    Str(<<"S","T","I","C","K","E","R">>)},
            tx \in {TAbsent, TNull, TStr(Hi), TDict(Absent), TDict(Null),
                    TDict(Str(Hi))},
            ca \in {Absent, Null, Str(Cap)},
            mi \in {Absent, Str(M1)},
            mu \in {Absent, Str(Url1)} } }
  \cup MediaEvents

\* parse_infobip_message(msg), for the event under test
Normalize ==
  /\ ~norm.done
  /\ norm' = [norm EXCEPT !.result = parse_infobip_message(norm.event),
                          !.done = TRUE]
  /\ UNCHANGED <<contacts, messages, msg_id_seq, clock, dbUp, req, appConn,
                 appOp, fetched, lastUpsert, appended, relay>>

InitParse ==
  /\ InitStore
  /\ norm \in {[NoNorm EXCEPT !.event = e] : e \in ParseEvents}
  /\ relay = IdleRelay

SpecParse == InitParse /\ [][Normalize]_vars

\* -------------------------------------------------------------- properties
\* an event carries a sender identifier: "from" is a non-empty string
HasSender(e) == e.from.k = "str" /\ Len(e.from.s) > 0

\* the batch array of a body: results if it is non-empty, otherwise messages
BatchOf(body) ==
  IF body.results.k = "list" /\ Len(body.results.items) > 0
  THEN body.results.items
  ELSE IF body.messages.k = "list" THEN body.messages.items ELSE <<>>

SendersIn(b) == Cardinality({i \in 1..Len(b) : HasSender(b[i])})

\* every field of the event is either missing or of the provider's shape
OnlyMissing(e) ==
  /\ e.from.k \in {"absent", "str"}
  /\ e.contact.k \in {"absent", "dict"}
  /\ e.contact.name.k \in {"absent", "str"}
  /\ e.message.k \in {"absent", "dict"}

\* C1: a request with a JSON batch that is answered with a count answers the
\* number of events of the selected array (results if non-empty, otherwise
\* messages) that carry a sender; and it is answered with a count whenever the
\* store stays reachable and the events' optional fields are at most missing.
C1_ReceivedCountsSenders ==
  \A r \in Reqs :
    (req[r].pc = "done" /\ req[r].body.kind = "object") =>
      /\ req[r].status = 200 =>
           req[r].received = SendersIn(BatchOf(req[r].body))
      /\ ( /\ \A i \in 1..Len(BatchOf(req[r].body)) :
                OnlyMissing(BatchOf(req[r].body)[i])
           /\ req[r].error # "OperationalError" ) => req[r].status = 200

\* a batch of a sender-less event and a bare one (every optional field
\* missing) is answered with 1
C1_Witness ==
  /\ req[1].pc = "done"
  /\ req[1].status = 200
  /\ req[1].received = 1
  /\ req[1].body.results = Array(<<EvNoFrom, EvBare>>)

\* C2 (as claimed): 400 only for a body that is not JSON; a body that parses
\* is answered 200 with the count while the store is reachable; a body with
\* no event is answered 200 with 0 and writes nothing.
C2_SuccessWheneverJson ==
  \A r \in Reqs :
    req[r].pc = "done" =>
      /\ req[r].status = 400 <=> req[r].body.kind = "invalid"
      /\ (req[r].body.kind # "invalid" /\ req[r].error # "OperationalError")
           => req[r].status = 200
      /\ (req[r].body.kind = "object" /\ BatchOf(req[r].body) = <<>>)
           => req[r].status = 200 /\ req[r].received = 0 /\ req[r].conn = "none"

\* C3 (as claimed): the normalizer raises for no event, whatever its
\* sub-fields hold.
C3_NormalizerNeverRaises == norm.done => ~norm.result.raised

RowsOf(phone) == {i \in 1..Len(contacts) : contacts[i].phone = phone}

\* C4: the contacts relation holds at most one row per phone, none for a phone
\* never upserted, and otherwise one whose name is that of the phone's last
\* committed upsert; an upsert repeated on its own result changes nothing.
C4_UpsertLastWriteWins ==
  /\ \A phone \in Phones :
       /\ Cardinality(RowsOf(phone)) <= 1
       /\ lastUpsert[phone].set <=> RowsOf(phone) # {}
       /\ \A i \in RowsOf(phone) : contacts[i].name = lastUpsert[phone].name
  /\ \A phone \in Phones, name \in {Ada, Bob} :
       LET once == UpsertRow(contacts, phone, name)
       IN  /\ UpsertRow(once, phone, name) = once
           /\ \A i \in 1..Len(once) : once[i].phone = phone => once[i].name = name
  /\ \A i \in 1..Len(contacts) : contacts[i].phone \in Phones

\* phone 1 was upserted under one name and then under another, beside a row of
\* phone 2: one row each, phone 1 under the later name
C4_Witness ==
  /\ lastUpsert[P1].over
  /\ lastUpsert[P1].name = Bob
  /\ Len(contacts) = 2
  /\ \E i \in 1..2 : contacts[i] = [phone |-> P1, name |-> Bob]

\* the last fetch was fetch_messages(conn, sel) and no row was written since
Listed(sel) ==
  /\ fetched.op = "fetch_messages"
  /\ fetched.sel = sel
  /\ fetched.n = Len(messages)

Occurrences(rows, row) == Cardinality({j \in 1..Len(rows) : rows[j] = row})

\* C5: every committed insert added one row, the ids of the rows are pairwise
\* distinct, and a listing returns each row of its selection once, rows of
\* identical fields included.
C5_AppendNeverMerges ==
  /\ Len(messages) = appended
  /\ \A i, j \in 1..Len(messages) : i # j => messages[i].id # messages[j].id
  /\ \A i \in 1..Len(messages) : messages[i].id <= msg_id_seq
  /\ Listed(All) =>
       \A i \in 1..Len(messages) : Occurrences(fetched.rows, messages[i]) = 1
  /\ \A phone \in Phones :
       Listed(phone) =>
         \A i \in 1..Len(messages) :
           Occurrences(fetched.rows, messages[i]) =
             IF messages[i].phone = phone THEN 1 ELSE 0

\* two rows of identical fields (and one timestamp) were written, and a
\* listing of everything returned both
C5_Witness ==
  /\ Listed(All)
  /\ \E i, j \in 1..Len(messages) :
       /\ i # j
       /\ SameFields(messages[i], messages[j])
       /\ messages[i].timestamp = messages[j].timestamp
       /\ Occurrences(fetched.rows, messages[i]) = 1
       /\ Occurrences(fetched.rows, messages[j]) = 1

\* C6: no step edits or deletes a row of messages: every row stays at its
\* place with every field as written.
C6_RowsAppendOnly ==
  [][ /\ Len(messages') >= Len(messages)
      /\ \A i \in 1..Len(messages) : messages'[i] = messages[i] ]_vars

\* after an ingestion request, an outbound send to the same phone and a
\* listing, the inbound row is still first and as written
C6_Witness ==
  /\ Len(messages) >= 2
  /\ messages[1].direction = "inbound"
  /\ \E i \in 2..Len(messages) :
       messages[i].direction = "outbound" /\ messages[i].phone = messages[1].phone
  /\ Listed(All)

\* the rows of a listing that belong to one phone, in the listing's order
OfPhone(rows, phone) == SelectSeq(rows, LAMBDA row : row.phone = phone)

Ascending(rows) ==
  \A a, b \in 1..Len(rows) : a < b => rows[a].timestamp <= rows[b].timestamp

\* C7 (as claimed): a listing ascends in timestamp; the listing of everything
\* holds every row; the listing of a phone is what any listing of everything
\* of the same rows holds for that phone, in the same order.
C7_PhoneListingFollowsAll ==
  /\ fetched.op = "fetch_messages" => Ascending(fetched.rows)
  /\ Listed(All) => Len(fetched.rows) = Len(messages)
  /\ \A phone \in Phones :
       Listed(phone) =>
         \A all \in fetch_messages(messages, All) :
           fetched.rows = OfPhone(all, phone)

\* C8 (as claimed): in a listing, rows of one timestamp ascend in id.
C8_TiesAscendInId ==
  fetched.op = "fetch_messages" =>
    \A a, b \in 1..Len(fetched.rows) :
      (a < b /\ fetched.rows[a].timestamp = fetched.rows[b].timestamp)
        => fetched.rows[a].id < fetched.rows[b].id

\* C9 (as claimed): an operation of the dashboard that held a dead connection
\* while the database accepted connections ran on a working one.
C9_ReconnectsWhenPossible ==
  (appOp.held = "dead" /\ appOp.up) => appOp.result = "ok"

\* C10 (as claimed): a relay request answered 200 that has ended, by the end
\* of the stream, by an error or by the caller going away, has closed the
\* upstream response once; and none is ever closed twice.
C10_UpstreamClosedOnce ==
  /\ relay.closed <= 1
  /\ (relay.pc = "done" /\ relay.status = 200) => relay.closed = 1

\* request r has moved in its handler (and was not only hit by the database)
Moved(r) == req'[r].pc # req[r].pc \/ req'[r].i # req[r].i

HasContact(cs, phone, name) ==
  \E j \in 1..Len(cs) : cs[j].phone = phone /\ cs[j].name = name

\* C12: the step of a request over an event without sender leaves both
\* relations and the counter as they are, does not end the request and moves
\* to the next event; over any other event the contact is upserted while the
\* messages and the counter stay, then the message is appended with the
\* contact in place and the counter incremented in the same step; the counter
\* changes in no other way while the request runs.
C12_SenderlessSkipped ==
  [][ \A r \in Reqs :
        /\ (req[r].pc = "loop" /\ req[r].i <= Len(req[r].results) /\ Moved(r)) =>
             LET e == req[r].results[req[r].i]
             IN  IF ~HasSender(e)
                 THEN /\ contacts' = contacts
                      /\ messages' = messages
                      /\ req'[r].received = req[r].received
                      /\ req'[r].pc = "loop"
                      /\ req'[r].i = req[r].i + 1
                      /\ req'[r].results = req[r].results
                 ELSE /\ messages' = messages
                      /\ req'[r].received = req[r].received
                      /\ req'[r].pc = "upserted" =>
                           /\ req'[r].i = req[r].i
                           /\ HasContact(contacts', e.from.s, req'[r].parsed.contact_name)
        /\ (req[r].pc = "upserted" /\ Moved(r) /\ req'[r].pc = "loop") =>
             /\ contacts' = contacts
             /\ Len(messages') = Len(messages) + 1
             /\ messages'[Len(messages')].phone = req[r].results[req[r].i].from.s
             /\ messages'[Len(messages')].direction = "inbound"
             /\ \E j \in 1..Len(contacts) :
                  contacts[j].phone = req[r].results[req[r].i].from.s
             /\ req'[r].received = req[r].received + 1
             /\ req'[r].i = req[r].i + 1
        /\ (req'[r].received # req[r].received /\ req'[r].pc # "idle") =>
             req[r].pc = "upserted" \/ req[r].pc = "idle"
    ]_vars

\* a batch of an event without sender and a text event was answered with a
\* count of 1, the text event's contact and message written
C12_Witness ==
  /\ req[1].pc = "done"
  /\ req[1].status = 200
  /\ req[1].results = <<EvNoFrom, EvText>>
  /\ req[1].received = 1
  /\ contacts = <<[phone |-> P1, name |-> Ada]>>
  /\ Len(messages) = 1 /\ messages[1].phone = P1

\* C13 (as claimed): every row of messages has a row of contacts of its phone.
C13_MessagePhoneHasContact ==
  \A i \in 1..Len(messages) :
    \E j \in 1..Len(contacts) : contacts[j].phone = messages[i].phone

\* a field that is present: a string that is not empty
Present(v) == v.k = "str" /\ v.s # <<>>

\* the first of two fields that is present, Absent when neither is
Either(a, b) == IF Present(a) THEN a ELSE IF Present(b) THEN b ELSE Absent

\* seg is the last segment of a path: it holds no "/", and the path is seg,
\* after nothing or after a prefix ending in "/", followed by "/" only
IsLastSegment(seg, path) ==
  /\ \A i \in 1..Len(seg) : seg[i] # "/"
  /\ \E a \in 0..Len(path) :
       /\ a + Len(seg) <= Len(path)
       /\ SubSeq(path, a + 1, a + Len(seg)) = seg
       /\ a > 0 => path[a] = "/"
       /\ \A i \in (a + Len(seg) + 1)..Len(path) : path[i] = "/"
       /\ seg = <<>> => \A i \in 1..Len(path) : path[i] = "/"

\* the event under test is a media event: it has a sender, a contact that is
\* missing or well formed, and a type tag that is a media tag in any case
IsMediaEvent(e) ==
  /\ HasSender(e)
  /\ OnlyMissing(e)
  /\ e.message.k = "dict"
  /\ e.message.type.k = "str"
  /\ \E tag \in MediaTags : Lower(tag) = Lower(e.message.type.s)

\* C14: for a media event the normalizer returns the tag in lower case as
\* the type, an empty body, the caption or the empty string, and as media
\* identifier the media id (mediaId, else id) when one is present, else the
\* last path segment of the media URL (url, else mediaUrl) when one is
\* present, else the empty string.
C14_MediaNormalized ==
  (norm.done /\ IsMediaEvent(norm.event)) =>
    LET c == norm.event.message
        r == norm.result
        media_id == Either(c.mediaId, c.id)
        media_url == Either(c.url, c.mediaUrl)
    IN  /\ ~r.raised /\ ~r.none
        /\ r.msg_type = Lower(c.type.s)
        /\ \E tag \in MediaTags : r.msg_type = Lower(tag)
        /\ r.text = Str(<<>>)
        /\ r.caption = (IF c.caption.k = "str" THEN c.caption.s ELSE <<>>)
        /\ Present(media_id) => r.media_identifier = media_id.s
        /\ (~Present(media_id) /\ Present(media_url)) =>
              /\ IsLastSegment(r.media_identifier, UrlPath(media_url.s))
              /\ media_url.s = Url1 => r.media_identifier = <<"m","3">>
              /\ media_url.s = Url2 => r.media_identifier = <<"m","4">>
        /\ (~Present(media_id) /\ ~Present(media_url)) => r.media_identifier = <<>>

\* an event of type "IMAGE" with a mediaUrl and no media id was normalized to
\* the last path segment of that URL
C14_Witness ==
  /\ norm.done
  /\ norm.event.message.type = Str(<<"I","M","A","G","E">>)
  /\ norm.event.message.mediaId = Absent /\ norm.event.message.id = Absent
  /\ norm.event.message.url = Absent /\ norm.event.message.mediaUrl = Str(Url1)
  /\ norm.result.msg_type = <<"i","m","a","g","e">>
  /\ norm.result.media_identifier = <<"m","3">>

\* the event under test is a text event: it has a sender, a contact that is
\* missing or well formed, a message that is missing, null or an object whose
\* type tag is no media tag in any case, and a text that is missing, null, a
\* string or an object whose body is missing or a string
IsTextEvent(e) ==
  /\ HasSender(e)
  /\ e.contact.k \in {"absent", "dict"}
  /\ e.contact.name.k \in {"absent", "str"}
  /\ e.message.k \in {"absent", "null", "dict"}
  /\ e.message.k = "dict" =>
       /\ ~\E tag \in MediaTags : Lower(tag) = Lower(PyStr(e.message.type))
       /\ e.message.text.k = "dict" => e.message.text.body.k \in {"absent", "str"}

\* C15: for a text event the normalizer returns the type "text", an empty
\* media identifier and caption, and as body the text field when it is a
\* string, the body of the text field when it is an object holding one, and
\* the empty string otherwise.
C15_TextNormalized ==
  (norm.done /\ IsTextEvent(norm.event)) =>
    LET c == norm.event.message
        r == norm.result
    IN  /\ ~r.raised /\ ~r.none
        /\ r.msg_type = <<"t","e","x","t">>
        /\ r.media_identifier = <<>>
        /\ r.caption = <<>>
        /\ r.text.k = "str"
        /\ r.text.s =
             (IF c.k # "dict" THEN <<>>
              ELSE IF c.text.k = "str" THEN c.text.s
              ELSE IF c.text.k = "dict" /\ c.text.body.k = "str" THEN c.text.body.s
              ELSE <<>>)

\* an event with the type omitted and its text in a nested object's body was
\* normalized to a text message of that body
C15_Witness ==
  /\ norm.done
  /\ HasSender(norm.event)
  /\ norm.event.message.k = "dict"
  /\ norm.event.message.type = Absent
  /\ norm.event.message.text = TDict(Str(Hi))
  /\ norm.event.message.mediaId = Str(M1)
  /\ norm.result.msg_type = text_type
  /\ norm.result.text = Str(Hi)
  /\ norm.result.media_identifier = <<>>

\* C16 (as claimed): the link of a row is decided by its direction alone: an
\* outbound row's media_link as it is stored, an inbound row's as the proxy
\* base, /media-proxy/ and the percent-encoded media_link.
C16_LinkByDirection ==
  relay.link # <<>> =>
    /\ relay.direction = "outbound" => relay.link = relay.origin
    /\ relay.direction = "inbound" =>
         relay.link = FASTAPI_PROXY_BASE \o MediaProxyRoute \o quote_plus(relay.origin)

\* the link of an inbound row was requested from the relay
Relayed ==
  /\ relay.pc # "idle"
  /\ relay.direction = "inbound"
  /\ StartsWith(relay.link, FASTAPI_PROXY_BASE \o MediaProxyRoute)

\* C20 (as claimed): when the link of an inbound row has been requested from
\* a configured relay, the relay has asked the upstream for the very
\* media_link of the row.
C20_IdentifierRoundTrip ==
  (Relayed /\ relay.auth /\ relay.sender) =>
    relay.asked = 1 /\ relay.media_id = relay.origin

RowTypes ==
  { <<"t","e","x","t">>, <<"i","m","a","g","e">>, <<"v","i","d","e","o">>,
    <<"d","o","c","u","m","e","n","t">>, <<"v","o","i","c","e">>,
    <<"a","u","d","i","o">> }

\* C17: every row of messages has one of the six types; a text row has an
\* empty media_link and an empty caption; any other row has an empty body.
C17_RowFieldsFollowType ==
  \A i \in 1..Len(messages) :
    LET row == messages[i]
    IN  /\ row.message_type \in RowTypes
        /\ row.message_type = <<"t","e","x","t">> =>
             row.media_link = <<>> /\ row.caption = <<>>
        /\ row.message_type # <<"t","e","x","t">> => row.message = Str(<<>>)

\* the store holds an inbound image row of an event that carried a text, and
\* an outbound media row of a form that had a message typed in
C17_Witness ==
  /\ Len(messages) = 2
  /\ \E i, j \in 1..2 :
       /\ messages[i].direction = "inbound"
       /\ messages[i].message_type = <<"i","m","a","g","e">>
       /\ messages[i].media_link = <<"m","3">>
       /\ messages[j].direction = "outbound"
       /\ messages[j].message_type = <<"d","o","c","u","m","e","n","t">>
       /\ messages[j].media_link = PdfUrl

\* the events of b that have a sender, in b's order
WithSender(b) == SelectSeq(b, HasSender)

\* C18: a request that failed on the store at its event k is answered 500
\* and stands at k; the events before k that have a sender are counted, and
\* their messages, in the events' order, and their contacts are in the store.
C18_EarlierEventsStayCommitted ==
  \A r \in Reqs :
    (req[r].pc = "done" /\ req[r].error = "OperationalError" /\ req[r].failedAt >= 1) =>
      LET k == req[r].failedAt
          before == WithSender(SubSeq(req[r].results, 1, k - 1))
          n == Len(before)
      IN  /\ req[r].status = 500
          /\ req[r].i = k
          /\ HasSender(req[r].results[k])
          /\ req[r].received = n
          /\ Len(messages) >= n
          /\ \A j \in 1..n :
               /\ messages[Len(messages) - n + j].phone = before[j].from.s
               /\ messages[Len(messages) - n + j].direction = "inbound"
               /\ \E c \in 1..Len(contacts) : contacts[c].phone = before[j].from.s

\* the store went away while the second event of a batch was being written:
\* the first event's message and contact are in the store
C18_Witness ==
  /\ req[1].pc = "done"
  /\ req[1].error = "OperationalError"
  /\ req[1].failedAt = 2
  /\ req[1].received = 1
  /\ ~dbUp
  /\ Len(messages) >= 1
  /\ messages[Len(messages)].phone = req[1].results[1].from.s

\* every request has been answered, or has not arrived
AllAnswered == \A r \in Reqs : req[r].pc \in {"idle", "done"}

\* the events delivered for a phone, over all requests
Delivered(phone) ==
  UNION { {req[r].results[i] : i \in {j \in 1..Len(req[r].results) :
                                       req[r].results[j].from = Str(phone)}} :
          r \in Reqs }

\* C19: when the requests served at once have all been answered with a
\* count, the rows of messages are as many as the counts add up to and all
\* inbound; a phone that events were delivered for has one row of contacts,
\* under the name of one of these events, the one of the upsert committed
\* last; any other phone has none.
C19_ConcurrentIngestion ==
  (AllAnswered /\ \A r \in Reqs : req[r].pc = "done" => req[r].status = 200) =>
    /\ Len(messages) = req[1].received + req[2].received
    /\ \A i \in 1..Len(messages) : messages[i].direction = "inbound"
    /\ \A phone \in Phones :
         IF Delivered(phone) = {}
         THEN RowsOf(phone) = {}
         ELSE /\ Cardinality(RowsOf(phone)) = 1
              /\ \A i \in RowsOf(phone) :
                   /\ \E e \in Delivered(phone) :
                        contacts[i].name = parse_infobip_message(e).contact_name
                   /\ contacts[i].name = lastUpsert[phone].name

\* two requests for one phone under two names ran interleaved: the second
\* upserted first and inserted last, and the contact has the first's name
C19_Witness ==
  /\ \A r \in Reqs : req[r].pc = "done" /\ req[r].status = 200 /\ req[r].received = 1
  /\ req[1].results = <<EvText>>
  /\ req[2].results = <<EvImage>>
  /\ contacts = <<[phone |-> P1, name |-> Ada]>>
  /\ Len(messages) = 2
  /\ messages[1].message_type = text_type
  /\ messages[2].message_type = <<"i","m","a","g","e">>

\* C11: a relay request without the credential or the sender number is
\* answered 500 and asks the upstream nothing; any other asks it once: a
\* refused connection is answered 502, a status other than 200 is answered
\* with that status and at most ErrorTextLimit characters of the upstream's
\* text (all of a shorter text), and only a 200 creates or advances the stream.
C11_RelayStatusMapping ==
  relay.pc # "idle" =>
    /\ (~relay.auth \/ ~relay.sender) =>
          /\ relay.pc = "done" /\ relay.status = 500
          /\ relay.asked = 0 /\ relay.opened = 0
    /\ (relay.auth /\ relay.sender) =>
          /\ relay.asked = 1
          /\ relay.upstream = 0 => relay.pc = "done" /\ relay.status = 502
          /\ relay.upstream \notin {0, 200} =>
                /\ relay.pc = "done" /\ relay.status = relay.upstream
                /\ relay.detail <= ErrorTextLimit
                /\ relay.detail <= relay.text_len
                /\ relay.text_len <= ErrorTextLimit => relay.detail = relay.text_len
    /\ (relay.pc \in {"created", "streaming"} \/ relay.sent > 0
          \/ relay.exit \in {"end", "error", "disconnect"}) =>
          relay.upstream = 200 /\ relay.status = 200

\* an upstream 404 with a text longer than the limit was relayed as 404 with
\* the text cut at the limit
C11_Witness ==
  /\ relay.pc = "done"
  /\ relay.status = 404
  /\ relay.text_len > ErrorTextLimit
  /\ relay.detail = ErrorTextLimit

====
